---- MODULE Spec2Model ----
(***************************************************************************)
(* Model of stubcheck: checker.py (the reconciliation of a stub's names    *)
(* with the names a module defines at runtime) and stubcheck.py (the guard *)
(* evaluator LiteralEvalVisitor, the stub name extractor and the older     *)
(* in-process driver check_typeshed_dir).                                  *)
(***************************************************************************)
EXTENDS Integers, Sequences, FiniteSets, TLC

VARIABLES
    pc,        \* position of the running program
    capture,   \* outcome of get_defined_names: "ok" or "CalledProcessError"
    runtime,   \* RuntimeDict returned by get_defined_names (name -> entry)
    lookup,    \* outcome of get_stub_names: "found" or "None"
    stub,      \* NameDict: the items (name, info) in insertion order
    errors,    \* the Error tuples yielded so far
    printed,   \* what print() has written, in order
    exc,       \* the exception that left the program, or "None"
    test,      \* the guard (node.test) handed to LiteralEvalVisitor
    result,    \* what LiteralEvalVisitor().visit(test) returned or raised
    tree,      \* the body of the stub's ast.Module handed to the extractor
    names,     \* the names the extraction has yielded
    modules,   \* the modules a driver is asked to check, in order
    checked    \* how many of them the driver's loop has finished with

vars == <<pc, capture, runtime, lookup, stub, errors, printed, exc,
          test, result, tree, names, modules, checked>>

reconVars == <<capture, runtime, lookup, stub, errors>>
evalVars == <<test, result>>
extractVars == <<tree, names>>
driverVars == <<modules, checked>>

(***************************************************************************)
(* Bounds of the model.                                                    *)
(***************************************************************************)
MaxStub == 2      \* most items in a stub NameDict
MaxAll == 2       \* most names in a runtime __all__ list
MaxValues == 3    \* most operands of a BoolOp
MaxDepth == 2     \* deepest nesting of if statements in a stub
MaxModules == 2   \* most modules handed to a driver

(***************************************************************************)
(* Names.  Python orders str by code point: upper case < "_" < lower case. *)
(***************************************************************************)
SortedNames == <<"BAR", "__all__", "__doc__", "_x", "extra", "foo">>

Rank(name) == CHOOSE i \in 1..Len(SortedNames) : SortedNames[i] = name

\* str.__lt__ on the names of the model
StrLt(a, b) == Rank(a) < Rank(b)

Names == {"BAR", "extra", "foo"}

RECURSIVE SeqsUpTo(_, _)
\* all sequences over S of length at most n
SeqsUpTo(S, n) ==
    IF n = 0 THEN {<<>>}
    ELSE LET shorter == SeqsUpTo(S, n - 1)
         IN shorter \cup {Append(s, x) : s \in {t \in shorter : Len(t) = n - 1}, x \in S}

Range(s) == {s[i] : i \in 1..Len(s)}

\* occurrences of x in the sequence s
Count(s, x) == Cardinality({i \in 1..Len(s) : s[i] = x})

(***************************************************************************)
(* sorted(): Python's sorted on a list, here by insertion of each element  *)
(* into the sorted prefix (stable, as list.sort is).  tuple.__lt__ on the  *)
(* items (name, info) of a dict decides by the name, the names of a dict   *)
(* being distinct.                                                         *)
(***************************************************************************)
\* x < y for two names or for two items of a NameDict
ItemLt(x, y, isItem) == IF isItem THEN StrLt(x[1], y[1]) ELSE StrLt(x, y)

RECURSIVE InsertSorted(_, _, _)
InsertSorted(x, s, isItem) ==
    IF s = <<>> THEN <<x>>
    ELSE IF ItemLt(x, Head(s), isItem) THEN <<x>> \o s
    ELSE <<Head(s)>> \o InsertSorted(x, Tail(s), isItem)

RECURSIVE SortList(_, _)
SortList(s, isItem) ==
    IF s = <<>> THEN <<>>
    ELSE InsertSorted(s[Len(s)], SortList(SubSeq(s, 1, Len(s) - 1), isItem), isItem)

\* a plausible slip: the list is iterated as it is, unsorted
sorted_Unsorted(s, isItem) == s

sorted(s, isItem) == SortList(s, isItem)

\* the variables of the other programs, where a specification has no use
\* for them
NoSurfaces ==
    /\ capture = "ok" /\ runtime = <<>> /\ lookup = "found" /\ stub = <<>>
    /\ errors = <<>>
NoGuard == test = <<>> /\ result = <<>>
NoDocument == tree = <<>> /\ names = <<>>
NoModules == modules = <<>> /\ checked = 0

(***************************************************************************)
(* checker.py: the two surfaces.                                           *)
(***************************************************************************)
\* typeshed_client's NameInfo, as far as check_only_in_stub reads it: the
\* flag is_exported and the declaring node info.ast (its class, the
\* type_comment of an Assign, the annotation of an AnnAssign).
NameInfo(is_exported, node, type_comment, annotation_node, annotation_id) ==
    [is_exported |-> is_exported,
     ast |-> [node |-> node, type_comment |-> type_comment,
              annotation |-> [node |-> annotation_node, id |-> annotation_id]]]

Infos ==
    { NameInfo(TRUE,  "FunctionDef", "None", "None", "None"),      \* def f(): ...
      NameInfo(FALSE, "FunctionDef", "None", "None", "None"),      \* not exported
      NameInfo(TRUE,  "Assign",      "int",  "None", "None"),      \* X = ...  # type: int
      NameInfo(TRUE,  "Assign",      "str",  "None", "None"),      \* X = ...  # type: str
      NameInfo(TRUE,  "AnnAssign",   "None", "Name", "int"),       \* X: int
      NameInfo(TRUE,  "AnnAssign",   "None", "Subscript", "None")  \* X: List[int]
    }

\* the items of a dict have distinct keys
DistinctKeys(items) ==
    \A i, j \in 1..Len(items) : items[i][1] = items[j][1] => i = j

\* the NameDicts of the model, as item lists in insertion order
Stubs == {s \in SeqsUpTo(Names \X Infos, MaxStub) : DistinctKeys(s)}

StubKeys(items) == {items[i][1] : i \in 1..Len(items)}

\* the names a module can define at runtime beside __all__
RuntimeNames == {"BAR", "foo"}

\* the names a module can list in its __all__
ExportedNames == {"extra", "foo"}

\* find_names.py handle_module: one entry per name of dir(mod); the entry of
\* __all__ has type '__all__' and value list(mod.__all__)
RuntimeDictOf(defined, hasAll, all) ==
    [n \in defined \cup (IF hasAll THEN {"__all__"} ELSE {}) |->
        IF n = "__all__" THEN [type |-> "__all__", value |-> all]
        ELSE [type |-> "callable", value |-> <<>>]]

Runtimes ==
    {RuntimeDictOf(defined, FALSE, <<>>) : defined \in SUBSET RuntimeNames}
    \cup {RuntimeDictOf(defined, TRUE, all) :
            defined \in SUBSET RuntimeNames, all \in SeqsUpTo(ExportedNames, MaxAll)}

\* the NamedTuple Error(module_name, message); the message keeps the name
\* and the text of the f-string
Error(module_name, name, text) ==
    [module_name |-> module_name, message |-> <<name, text>>]

InStubText == "is in stub but is not defined at runtime"
InAllText == "is in __all__ but not in stub"

(***************************************************************************)
(* checker.py check_only_in_stub                                           *)
(***************************************************************************)
\* the two special cases that skip an int declared in the stub
IsIntAssign(info) ==
    \/ info.ast.node = "Assign" /\ info.ast.type_comment = "int"
    \/ /\ info.ast.node = "AnnAssign"
       /\ info.ast.annotation.node = "Name"
       /\ info.ast.annotation.id = "int"

RECURSIVE OnlyInStubLoop(_, _, _)
\* the body of the for loop, over the sorted items
OnlyInStubLoop(items, rt, module_name) ==
    IF items = <<>> THEN <<>>
    ELSE LET name == Head(items)[1]
             info == Head(items)[2]
             rest == OnlyInStubLoop(Tail(items), rt, module_name)
         IN IF name \in DOMAIN rt THEN rest
            ELSE IF ~info.is_exported THEN rest
            ELSE IF IsIntAssign(info) THEN rest
            ELSE <<Error(module_name, name, InStubText)>> \o rest

RECURSIVE OnlyInStubLoop_NoExportTest(_, _, _)
\* a plausible slip: the is_exported test is left out
OnlyInStubLoop_NoExportTest(items, rt, module_name) ==
    IF items = <<>> THEN <<>>
    ELSE LET name == Head(items)[1]
             info == Head(items)[2]
             rest == OnlyInStubLoop_NoExportTest(Tail(items), rt, module_name)
         IN IF name \in DOMAIN rt THEN rest
            ELSE IF IsIntAssign(info) THEN rest
            ELSE <<Error(module_name, name, InStubText)>> \o rest

check_only_in_stub_NoExportTest(rt, st, module_name) ==
    OnlyInStubLoop_NoExportTest(sorted(st, TRUE), rt, module_name)

check_only_in_stub(rt, st, module_name) ==
    OnlyInStubLoop(sorted(st, TRUE), rt, module_name)

(***************************************************************************)
(* checker.py check_only_in_runtime                                        *)
(***************************************************************************)
RECURSIVE OnlyInRuntimeLoop(_, _, _)
\* the body of the for loop, over the sorted __all__
OnlyInRuntimeLoop(all, st, module_name) ==
    IF all = <<>> THEN <<>>
    ELSE LET name == Head(all)
             rest == OnlyInRuntimeLoop(Tail(all), st, module_name)
         IN IF name \notin StubKeys(st)
            THEN <<Error(module_name, name, InAllText)>> \o rest
            ELSE rest

\* a plausible slip: every name of __all__ is reported, in the stub or not
check_only_in_runtime_NoStubTest(rt, st, module_name) ==
    IF "__all__" \in DOMAIN rt
    THEN [i \in 1..Len(rt["__all__"].value) |->
            Error(module_name, sorted(rt["__all__"].value, FALSE)[i], InAllText)]
    ELSE <<>>

check_only_in_runtime(rt, st, module_name) ==
    IF "__all__" \in DOMAIN rt
    THEN OnlyInRuntimeLoop(sorted(rt["__all__"].value, FALSE), st, module_name)
    ELSE <<>>

(***************************************************************************)
(* checker.py check_module: what one call yields, prints and raises.       *)
(***************************************************************************)
Outcome(errs, prints, raised) ==
    [errors |-> errs, printed |-> prints, exc |-> raised]

check_module(cap, rt, lk, st, module_name) ==
    IF cap = "CalledProcessError"
    THEN Outcome(<<>>, <<<<"failed to import", module_name>>>>, "None")
    ELSE IF lk = "None"
    \* stub is None: stub.items() raises before anything is yielded
    THEN Outcome(<<>>, <<>>, "AttributeError")
    ELSE Outcome(check_only_in_stub(rt, st, module_name)
                    \o check_only_in_runtime(rt, st, module_name),
                 <<>>, "None")

ModuleName == "mod"

(***************************************************************************)
(* Spec: check_module on one module, for every pair of surfaces.           *)
(***************************************************************************)
Init ==
    /\ pc = "start"
    /\ \/ /\ capture = "ok"
          /\ runtime \in Runtimes
          /\ \/ lookup = "found" /\ stub \in Stubs
             \/ lookup = "None" /\ stub = <<>>
       \/ /\ capture = "CalledProcessError"
          /\ runtime = RuntimeDictOf({}, FALSE, <<>>)
          /\ lookup \in {"found", "None"}
          /\ stub = <<>>
    /\ errors = <<>>
    /\ printed = <<>>
    /\ exc = "None"
    /\ NoGuard
    /\ NoDocument
    /\ NoModules

CheckModule ==
    /\ pc = "start"
    /\ LET r == check_module(capture, runtime, lookup, stub, ModuleName)
       IN /\ errors' = r.errors
          /\ printed' = r.printed
          /\ exc' = r.exc
          /\ pc' = IF r.exc = "None" THEN "done" ELSE "raised"
    /\ UNCHANGED <<capture, runtime, lookup, stub, evalVars, extractVars, driverVars>>

Next == CheckModule

Spec == Init /\ [][Next]_vars

(***************************************************************************)
(* stubcheck.py: the Python values a guard can evaluate to.  A str is the  *)
(* sequence of its code points, a tuple the sequence of its items;         *)
(* sys.version_info is a tuple with named fields.                          *)
(***************************************************************************)
IntV(n) == [t |-> "int", n |-> n]
BoolV(b) == [t |-> "bool", b |-> b]
StrV(chars) == [t |-> "str", chars |-> chars]
TupleV(items, named) == [t |-> "tuple", items |-> items, named |-> named]
SliceV(lower, upper, step) == [t |-> "slice", lower |-> lower, upper |-> upper, step |-> step]
NoneV == [t |-> "None"]
SysModule == [t |-> "module", name |-> "sys"]

S_linux == <<108, 105, 110, 117, 120>>    \* 'linux'
S_lin == <<108, 105, 110>>                \* 'lin'
S_final == <<102, 105, 110, 97, 108>>     \* 'final'

\* the fixed context: sys.version_info and sys.platform of the interpreter
\* that runs stubcheck.py
VersionInfo == TupleV(<<IntV(3), IntV(6), IntV(0), StrV(S_final), IntV(0)>>, TRUE)
Platform == StrV(S_linux)

\* what a visit returns (k = "ok", the value v) or raises (k = "raise", the
\* exception class e), with the nodes visit() was called on, in order
Ok(v, visited) == [k |-> "ok", v |-> v, e |-> "None", visited |-> visited]
Raise(e, visited) == [k |-> "raise", v |-> NoneV, e |-> e, visited |-> visited]

\* bool(v)
Truthy(v) ==
    CASE v.t = "int" -> v.n # 0
      [] v.t = "bool" -> v.b
      [] v.t = "str" -> v.chars # <<>>
      [] v.t = "tuple" -> v.items # <<>>
      [] v.t = "None" -> FALSE
      [] OTHER -> TRUE

IsNum(v) == v.t \in {"int", "bool"}
NumOf(v) == IF v.t = "bool" THEN (IF v.b THEN 1 ELSE 0) ELSE v.n

RECURSIVE PyEq(_, _)
\* x == y
PyEq(x, y) ==
    IF IsNum(x) /\ IsNum(y) THEN NumOf(x) = NumOf(y)
    ELSE IF x.t = "str" /\ y.t = "str" THEN x.chars = y.chars
    ELSE IF x.t = "tuple" /\ y.t = "tuple"
         THEN /\ Len(x.items) = Len(y.items)
              /\ \A i \in 1..Len(x.items) : PyEq(x.items[i], y.items[i])
    ELSE IF x.t = "slice" /\ y.t = "slice"
         THEN /\ PyEq(x.lower, y.lower) /\ PyEq(x.upper, y.upper) /\ PyEq(x.step, y.step)
    ELSE x.t = y.t /\ x.t \in {"None", "module"}

\* x is y, for the objects a guard can build: None, bools, small ints and
\* the module are the one object of their value; sys.version_info is one
\* object; a tuple or slice the visitor builds is a new object, the empty
\* tuple excepted.  Whether two equal strs are one object is up to the
\* interpreter's interning: no guard of the model asks.
PyIs(x, y) ==
    IF x.t # y.t THEN FALSE
    ELSE CASE x.t = "tuple" -> (x.named /\ y.named) \/ (x.items = <<>> /\ y.items = <<>>)
           [] x.t = "slice" -> FALSE
           [] OTHER -> x = y

IntOrder(op, a, b) ==
    CASE op = "Lt" -> a < b
      [] op = "LtE" -> a <= b
      [] op = "Gt" -> a > b
      [] op = "GtE" -> a >= b

\* the first index at which two sequences differ, 0 when one is a prefix
FirstDiff(a, b, Same(_, _)) ==
    LET n == IF Len(a) < Len(b) THEN Len(a) ELSE Len(b)
        D == {i \in 1..n : ~Same(a[i], b[i])}
    IN IF D = {} THEN 0 ELSE CHOOSE i \in D : \A j \in D : i <= j

IntSame(a, b) == a = b

RECURSIVE PyOrder(_, _, _)
\* x < y, x <= y, x > y, x >= y: numbers by value, strs and tuples
\* lexicographically, TypeError for every other pair
PyOrder(op, x, y) ==
    IF IsNum(x) /\ IsNum(y) THEN Ok(BoolV(IntOrder(op, NumOf(x), NumOf(y))), <<>>)
    ELSE IF x.t = "str" /\ y.t = "str"
         THEN LET d == FirstDiff(x.chars, y.chars, IntSame)
              IN IF d = 0 THEN Ok(BoolV(IntOrder(op, Len(x.chars), Len(y.chars))), <<>>)
                 ELSE Ok(BoolV(IntOrder(op, x.chars[d], y.chars[d])), <<>>)
    ELSE IF x.t = "tuple" /\ y.t = "tuple"
         THEN LET d == FirstDiff(x.items, y.items, PyEq)
              IN IF d = 0 THEN Ok(BoolV(IntOrder(op, Len(x.items), Len(y.items))), <<>>)
                 ELSE PyOrder(op, x.items[d], y.items[d])
    ELSE Raise("TypeError", <<>>)

\* a occurs in b as a substring
Substring(a, b) ==
    \E i \in 0..(Len(b) - Len(a)) : SubSeq(b, i + 1, i + Len(a)) = a

\* x in y
PyIn(x, y) ==
    IF y.t = "tuple" THEN Ok(BoolV(\E i \in 1..Len(y.items) : PyEq(y.items[i], x)), <<>>)
    ELSE IF y.t = "str"
         THEN IF x.t = "str" THEN Ok(BoolV(Substring(x.chars, y.chars)), <<>>)
              ELSE Raise("TypeError", <<>>)
    ELSE Raise("TypeError", <<>>)

PyNot(r) == IF r.k = "ok" THEN Ok(BoolV(~r.v.b), <<>>) ELSE r

\* _CMP_OP_TO_FUNCTION[type(op)](x, y)
CmpOp(op, x, y) ==
    CASE op = "Eq" -> Ok(BoolV(PyEq(x, y)), <<>>)
      [] op = "NotEq" -> Ok(BoolV(~PyEq(x, y)), <<>>)
      [] op \in {"Lt", "LtE", "Gt", "GtE"} -> PyOrder(op, x, y)
      [] op = "Is" -> Ok(BoolV(PyIs(x, y)), <<>>)
      [] op = "IsNot" -> Ok(BoolV(~PyIs(x, y)), <<>>)
      [] op = "In" -> PyIn(x, y)
      [] op = "NotIn" -> PyNot(PyIn(x, y))

\* a slice bound: None or an int
IsBound(v) == v.t = "None" \/ IsNum(v)

RECURSIVE SliceIndices(_, _, _)
\* the indices i, i + step, ... before stop (0-based)
SliceIndices(i, stop, step) ==
    IF (step > 0 /\ i >= stop) \/ (step < 0 /\ i <= stop) THEN <<>>
    ELSE <<i>> \o SliceIndices(i + step, stop, step)

\* slice.indices(n) for one bound: the default when None, a negative bound
\* counted from the end, then clipped to [lo, hi]
ClipBound(v, n, default, lo, hi) ==
    IF v.t = "None" THEN default
    ELSE LET i == IF NumOf(v) < 0 THEN NumOf(v) + n ELSE NumOf(v)
         IN IF i < lo THEN lo ELSE IF i > hi THEN hi ELSE i

\* seq[slc] for the items of a tuple or the code points of a str: the
\* selected elements, or the exception; the step is examined first
SliceSeq(seq, slc) ==
    LET n == Len(seq)
    IN IF ~IsBound(slc.step) THEN Raise("TypeError", <<>>)
       ELSE IF slc.step.t # "None" /\ NumOf(slc.step) = 0 THEN Raise("ValueError", <<>>)
       ELSE IF ~IsBound(slc.lower) \/ ~IsBound(slc.upper) THEN Raise("TypeError", <<>>)
       ELSE LET step == IF slc.step.t = "None" THEN 1 ELSE NumOf(slc.step)
                start == IF step > 0 THEN ClipBound(slc.lower, n, 0, 0, n)
                         ELSE ClipBound(slc.lower, n, n - 1, -1, n - 1)
                stop == IF step > 0 THEN ClipBound(slc.upper, n, n, 0, n)
                        ELSE ClipBound(slc.upper, n, -1, -1, n - 1)
                idx == SliceIndices(start, stop, step)
            IN Ok([j \in 1..Len(idx) |-> seq[idx[j] + 1]], <<>>)

\* value[key]
GetItem(value, key) ==
    IF value.t \notin {"tuple", "str"} THEN Raise("TypeError", <<>>)
    ELSE LET seq == IF value.t = "tuple" THEN value.items ELSE value.chars
         IN IF key.t = "slice"
            THEN LET r == SliceSeq(seq, key)
                 IN IF r.k = "raise" THEN r
                    ELSE IF value.t = "tuple" THEN Ok(TupleV(r.v, FALSE), <<>>)
                    ELSE Ok(StrV(r.v), <<>>)
            ELSE IF IsNum(key)
            THEN LET i == IF NumOf(key) < 0 THEN NumOf(key) + Len(seq) ELSE NumOf(key)
                 IN IF i < 0 \/ i >= Len(seq) THEN Raise("IndexError", <<>>)
                    ELSE IF value.t = "tuple" THEN Ok(seq[i + 1], <<>>)
                    ELSE Ok(StrV(<<seq[i + 1]>>), <<>>)
            ELSE Raise("TypeError", <<>>)

\* getattr(val, attr), for the attributes the guards of the model name:
\* the value, or AttributeError
GetAttr(val, attr) ==
    IF val.t = "module" /\ attr = "version_info" THEN Ok(VersionInfo, <<>>)
    ELSE IF val.t = "module" /\ attr = "platform" THEN Ok(Platform, <<>>)
    ELSE IF val.t = "tuple" /\ val.named /\ attr = "major" THEN Ok(val.items[1], <<>>)
    ELSE IF val.t = "tuple" /\ val.named /\ attr = "minor" THEN Ok(val.items[2], <<>>)
    ELSE Raise("AttributeError", <<>>)

(***************************************************************************)
(* stubcheck.py: the ast nodes of a guard.  An optional child that is None *)
(* in the tree (a bound of a Slice) is the node NoneNode.                  *)
(***************************************************************************)
Name(id) == [node |-> "Name", id |-> id]
Num(n) == [node |-> "Num", n |-> n]
Str(chars) == [node |-> "Str", s |-> chars]
Tuple(elts) == [node |-> "Tuple", elts |-> elts]
Subscript(value, slice) == [node |-> "Subscript", value |-> value, slice |-> slice]
Slice(lower, upper, step) == [node |-> "Slice", lower |-> lower, upper |-> upper, step |-> step]
Index(value) == [node |-> "Index", value |-> value]
Compare(left, ops, comparators) ==
    [node |-> "Compare", left |-> left, ops |-> ops, comparators |-> comparators]
BoolOp(op, values) == [node |-> "BoolOp", op |-> op, values |-> values]
Attribute(value, attr) == [node |-> "Attribute", value |-> value, attr |-> attr]
UnaryOp(op, operand) == [node |-> "UnaryOp", op |-> op, operand |-> operand]
NameConstant(value) == [node |-> "NameConstant", constant |-> value]
NoneNode == [node |-> "None"]

\* r, with the nodes in pre visited before it
After(pre, r) == [r EXCEPT !.visited = pre \o @]

(***************************************************************************)
(* stubcheck.py LiteralEvalVisitor.  NodeVisitor.visit calls the method    *)
(* visit_<class> when the visitor has one and generic_visit otherwise.     *)
(***************************************************************************)
RECURSIVE visit(_)

visit_Name(node) ==
    IF node.id = "sys" THEN Ok(SysModule, <<node>>)
    ELSE Raise("LiteralEvalError", <<node>>)

visit_Num(node) == Ok(IntV(node.n), <<node>>)

visit_Str(node) == Ok(StrV(node.s), <<node>>)

RECURSIVE VisitEach(_)
\* visit(elt) for elt in elts: the values, up to the first that raises
VisitEach(elts) ==
    IF elts = <<>> THEN Ok(<<>>, <<>>)
    ELSE LET r == visit(Head(elts))
         IN IF r.k = "raise" THEN r
            ELSE LET rest == VisitEach(Tail(elts))
                 IN IF rest.k = "raise" THEN After(r.visited, rest)
                    ELSE Ok(<<r.v>> \o rest.v, r.visited \o rest.visited)

visit_Tuple(node) ==
    LET r == VisitEach(node.elts)
    IN IF r.k = "raise" THEN After(<<node>>, r)
       ELSE Ok(TupleV(r.v, FALSE), <<node>> \o r.visited)

visit_Subscript(node) ==
    LET value == visit(node.value)
    IN IF value.k = "raise" THEN After(<<node>>, value)
       ELSE LET slc == visit(node.slice)
            IN IF slc.k = "raise" THEN After(<<node>> \o value.visited, slc)
               ELSE After(<<node>> \o value.visited \o slc.visited,
                          GetItem(value.v, slc.v))

\* a plausible slip: the test for a chained comparison is left out
visit_Compare_NoChainTest(node) ==
    LET left == visit(node.left)
    IN IF left.k = "raise" THEN After(<<node>>, left)
       ELSE LET right == visit(node.comparators[1])
            IN IF right.k = "raise" THEN After(<<node>> \o left.visited, right)
               ELSE After(<<node>> \o left.visited \o right.visited,
                          CmpOp(node.ops[1], left.v, right.v))

visit_Compare(node) ==
    IF Len(node.ops) # 1 THEN Raise("LiteralEvalError", <<node>>)
    ELSE LET left == visit(node.left)
         IN IF left.k = "raise" THEN After(<<node>>, left)
            ELSE LET right == visit(node.comparators[1])
                 IN IF right.k = "raise" THEN After(<<node>> \o left.visited, right)
                    ELSE After(<<node>> \o left.visited \o right.visited,
                               CmpOp(node.ops[1], left.v, right.v))

RECURSIVE BoolOpLoop(_, _)
\* the for loop of visit_BoolOp over the values that are left
BoolOpLoop(op, values) ==
    LET val == visit(Head(values))
    IN IF val.k = "raise" THEN val
       ELSE IF (op = "Or" /\ Truthy(val.v)) \/ (op = "And" /\ ~Truthy(val.v)) THEN val
       ELSE IF Tail(values) = <<>> THEN val
       ELSE After(val.visited, BoolOpLoop(op, Tail(values)))

RECURSIVE BoolOpLoop_Coerced(_, _)
\* a plausible slip: the operand's truth value is returned, not the operand
BoolOpLoop_Coerced(op, values) ==
    LET val == visit(Head(values))
    IN IF val.k = "raise" THEN val
       ELSE IF (op = "Or" /\ Truthy(val.v)) \/ (op = "And" /\ ~Truthy(val.v))
            THEN Ok(BoolV(Truthy(val.v)), val.visited)
       ELSE IF Tail(values) = <<>> THEN Ok(BoolV(Truthy(val.v)), val.visited)
       ELSE After(val.visited, BoolOpLoop_Coerced(op, Tail(values)))

visit_BoolOp_Coerced(node) == After(<<node>>, BoolOpLoop_Coerced(node.op, node.values))

visit_BoolOp(node) ==
    \* a BoolOp of the parser has two values or more; with none, the
    \* return after the loop reads val unbound
    IF node.values = <<>> THEN Raise("UnboundLocalError", <<node>>)
    ELSE After(<<node>>, BoolOpLoop(node.op, node.values))

\* self.visit(child) if child is not None else None
VisitOptional(child) ==
    IF child = NoneNode THEN Ok(NoneV, <<>>) ELSE visit(child)

visit_Slice(node) ==
    LET lower == VisitOptional(node.lower)
    IN IF lower.k = "raise" THEN After(<<node>>, lower)
       ELSE LET upper == VisitOptional(node.upper)
            IN IF upper.k = "raise" THEN After(<<node>> \o lower.visited, upper)
               ELSE LET step == VisitOptional(node.step)
                    IN IF step.k = "raise"
                       THEN After(<<node>> \o lower.visited \o upper.visited, step)
                       ELSE Ok(SliceV(lower.v, upper.v, step.v),
                               <<node>> \o lower.visited \o upper.visited \o step.visited)

visit_Attribute(node) ==
    LET val == visit(node.value)
    IN IF val.k = "raise" THEN After(<<node>>, val)
       ELSE LET r == GetAttr(val.v, node.attr)
            IN IF r.k = "raise" THEN Raise("LiteralEvalError", <<node>> \o val.visited)
               ELSE After(<<node>> \o val.visited, r)

generic_visit(node) == Raise("LiteralEvalError", <<node>>)

visit(node) ==
    CASE node.node = "Name" -> visit_Name(node)
      [] node.node = "Num" -> visit_Num(node)
      [] node.node = "Str" -> visit_Str(node)
      [] node.node = "Tuple" -> visit_Tuple(node)
      [] node.node = "Subscript" -> visit_Subscript(node)
      [] node.node = "Compare" -> visit_Compare(node)
      [] node.node = "BoolOp" -> visit_BoolOp(node)
      [] node.node = "Slice" -> visit_Slice(node)
      [] node.node = "Attribute" -> visit_Attribute(node)
      [] OTHER -> generic_visit(node)

(***************************************************************************)
(* The guards of the model: the guards of typeshed's stubs (comparisons of *)
(* sys.version_info and sys.platform, joined by and/or) and guards the     *)
(* visitor cannot evaluate.                                                *)
(***************************************************************************)
SysVersionInfo == Attribute(Name("sys"), "version_info")
SysPlatform == Attribute(Name("sys"), "platform")

\* the operands of the comparisons
CmpOperands ==
    { SysVersionInfo,                                            \* sys.version_info
      Subscript(SysVersionInfo, Slice(NoneNode, Num(2), NoneNode)),  \* sys.version_info[:2]
      Attribute(SysVersionInfo, "major"),                        \* sys.version_info.major
      SysPlatform,                                               \* sys.platform
      Tuple(<<Num(3), Num(5)>>),                                 \* (3, 5)
      Num(3),
      Str(S_linux),
      Name("foo") }

CmpOps == {"Eq", "NotEq", "Lt", "LtE", "Gt", "GtE", "Is", "IsNot", "In", "NotIn"}

\* the operands that evaluate to a str
StrOperands == {SysPlatform, Str(S_linux)}

\* every comparison of two operands, but the identity of two strs, which
\* CPython's interning decides and Python does not
Comparisons ==
    {c \in {Compare(l, <<op>>, <<r>>) : l \in CmpOperands, op \in CmpOps, r \in CmpOperands} :
        ~(c.ops[1] \in {"Is", "IsNot"} /\ c.left \in StrOperands
            /\ c.comparators[1] \in StrOperands)}

\* guards of other shapes: subscripts of both parsers (the index wrapped in
\* Index before Python 3.9, bare since), slices, attributes, chained
\* comparisons, nodes the visitor has no method for
OtherGuards ==
    { Name("sys"), Name("foo"), Num(0), Str(<<>>), Tuple(<<>>),
      Tuple(<<Num(3), Name("foo")>>),
      Subscript(SysVersionInfo, Index(Num(0))),
      Subscript(SysVersionInfo, Num(0)),
      Subscript(SysVersionInfo, UnaryOp("USub", Num(1))),            \* [-1]
      Subscript(SysVersionInfo, Num(7)),
      Subscript(SysVersionInfo, Str(S_lin)),
      Subscript(SysVersionInfo, Slice(NoneNode, NoneNode, Num(0))),
      Subscript(SysVersionInfo, Slice(NoneNode, NoneNode, UnaryOp("USub", Num(1)))),
      Subscript(SysVersionInfo, Slice(Num(1), Num(9), NoneNode)),
      Subscript(SysVersionInfo, Slice(Num(3), Num(1), Num(2))),
      Subscript(SysVersionInfo, Slice(NoneNode, NoneNode, Num(2))),
      Subscript(SysVersionInfo, Slice(Str(S_lin), NoneNode, NoneNode)),
      Subscript(SysVersionInfo, Slice(Name("foo"), NoneNode, NoneNode)),
      Subscript(SysPlatform, Slice(NoneNode, Num(3), NoneNode)),
      Subscript(SysPlatform, Num(0)),
      Subscript(Name("sys"), Slice(NoneNode, Num(2), NoneNode)),
      Subscript(Num(3), Num(0)),
      Subscript(Name("foo"), Num(0)),
      Attribute(Name("sys"), "nope"),
      Attribute(SysPlatform, "major"),
      Attribute(Attribute(Name("foo"), "version_info"), "major"),
      Compare(Num(0), <<"Lt", "Lt">>, <<Num(3), Num(5)>>),
      Compare(Name("foo"), <<"Lt", "Lt">>, <<Num(3), Num(5)>>),
      Compare(Subscript(SysPlatform, Slice(NoneNode, Num(3), NoneNode)), <<"Eq">>, <<Str(S_lin)>>),
      Compare(Tuple(<<Num(3), Compare(Num(0), <<"Lt", "Lt">>, <<Num(3), Num(5)>>)>>),
              <<"Eq">>, <<Num(3)>>),
      UnaryOp("Not", Num(0)),
      NameConstant("True") }

\* the operands of the and/or guards: false and true values that are not
\* bools, comparisons, and operands that raise
BoolOperands ==
    { Num(0), Num(3), Str(<<>>), SysPlatform,
      Compare(SysVersionInfo, <<"GtE">>, <<Tuple(<<Num(3), Num(5)>>)>>),   \* True
      Compare(SysPlatform, <<"Eq">>, <<Str(S_lin)>>),                      \* False
      Compare(SysVersionInfo, <<"GtE">>, <<Num(3)>>),                      \* TypeError
      Name("foo") }                                                        \* LiteralEvalError

BoolOps ==
    {BoolOp(op, values) :
        op \in {"And", "Or"},
        values \in {v \in SeqsUpTo(BoolOperands, MaxValues) : Len(v) >= 2}}

\* an and/or as an operand of another
NestedBoolOps ==
    {BoolOp(op, <<BoolOp(inner, <<a, b>>), c>>) :
        op \in {"And", "Or"}, inner \in {"And", "Or"},
        a \in {Num(0), Num(3), Name("foo")}, b \in {Str(<<>>), SysPlatform},
        c \in {Num(0), Name("foo")}}
    \cup {BoolOp(op, <<c, BoolOp(inner, <<a, b>>)>>) :
        op \in {"And", "Or"}, inner \in {"And", "Or"},
        a \in {Num(0), Num(3), Name("foo")}, b \in {Str(<<>>), SysPlatform},
        c \in {Num(0), Num(3)}}

Guards == Comparisons \cup OtherGuards \cup BoolOps \cup NestedBoolOps

(***************************************************************************)
(* SpecEval: LiteralEvalVisitor().visit(test) for every guard.             *)
(***************************************************************************)
InitEval ==
    /\ pc = "start"
    /\ test \in Guards
    /\ result = <<>>
    /\ printed = <<>>
    /\ exc = "None"
    /\ NoSurfaces
    /\ NoDocument
    /\ NoModules

Evaluate ==
    /\ pc = "start"
    /\ result' = visit(test)
    /\ pc' = "done"
    /\ UNCHANGED <<test, printed, exc, reconVars, extractVars, driverVars>>

NextEval == Evaluate

SpecEval == InitEval /\ [][NextEval]_vars

(***************************************************************************)
(* stubcheck.py: the statements of a stub and extract_names_from_node_list.*)
(***************************************************************************)
ClassDef(name) == [node |-> "ClassDef", name |-> name]
FunctionDef(name) == [node |-> "FunctionDef", name |-> name]
Assign(targets) == [node |-> "Assign", targets |-> targets]
If(guard, body, orelse) == [node |-> "If", test |-> guard, body |-> body, orelse |-> orelse]
Import == [node |-> "Import"]

\* what the generator yields and prints, and the exception that ends it
Extracted(yielded, prints, raised) ==
    [names |-> yielded, printed |-> prints, exc |-> raised]

RECURSIVE TargetNames(_)
\* target.id for the targets that are a Name
TargetNames(targets) ==
    IF targets = <<>> THEN <<>>
    ELSE (IF Head(targets).node = "Name" THEN <<Head(targets).id>> ELSE <<>>)
            \o TargetNames(Tail(targets))

RECURSIVE extract_names_from_node_list(_)
extract_names_from_node_list(nodes) ==
    IF nodes = <<>> THEN Extracted(<<>>, <<>>, "None")
    ELSE LET node == Head(nodes)
             first ==
                CASE node.node = "ClassDef" -> Extracted(<<node.name>>, <<>>, "None")
                  [] node.node = "Assign" -> Extracted(TargetNames(node.targets), <<>>, "None")
                  [] node.node = "FunctionDef" -> Extracted(<<node.name>>, <<>>, "None")
                  [] node.node = "If" ->
                        LET condition == visit(node.test)
                        IN IF condition.k = "raise"
                           THEN IF condition.e = "LiteralEvalError"
                                THEN Extracted(<<>>, <<<<"bad condition", node.test>>>>, "None")
                                \* except LiteralEvalError catches nothing else
                                ELSE Extracted(<<>>, <<>>, condition.e)
                           ELSE IF Truthy(condition.v)
                                THEN extract_names_from_node_list(node.body)
                                ELSE extract_names_from_node_list(node.orelse)
                  [] OTHER -> Extracted(<<>>, <<>>, "None")
         IN IF first.exc # "None" THEN first
            ELSE LET rest == extract_names_from_node_list(Tail(nodes))
                 IN Extracted(first.names \o rest.names, first.printed \o rest.printed,
                              rest.exc)

extract_names_from_ast(module_body) == extract_names_from_node_list(module_body)

(***************************************************************************)
(* The stubs of the model.  Each declaration is named after its place in   *)
(* the stub, the path of statement numbers and branches (1 the body, 2 the *)
(* orelse) that leads to it, so that no two declarations share a name.     *)
(***************************************************************************)
GTrue == Compare(SysVersionInfo, <<"GtE">>, <<Tuple(<<Num(3), Num(5)>>)>>)  \* sys.version_info >= (3, 5)
GFalse == Compare(SysPlatform, <<"Eq">>, <<Str(S_lin)>>)                    \* sys.platform == 'lin'
GTruthy == SysPlatform                                                      \* sys.platform
GUnbound == Name("foo")                                                     \* foo
GTypeError == Compare(SysVersionInfo, <<"GtE">>, <<Num(3)>>)                \* sys.version_info >= 3
GIndexError == Subscript(SysVersionInfo, Num(7))                            \* sys.version_info[7]

StubGuards == {GTrue, GFalse, GTruthy, GUnbound, GTypeError, GIndexError}

\* the statements without a body, at path p
SimpleAt(p) ==
    { ClassDef(p), FunctionDef(p), Import,
      Assign(<<Name(p \o <<1>>), Attribute(Name("sys"), "x"), Name(p \o <<3>>)>>) }

RECURSIVE ElseBlocksAt(_, _)
\* the orelse lists at path p
ElseBlocksAt(p, depth) ==
    {<<>>, <<ClassDef(p \o <<1>>)>>}
    \cup (IF depth = 0 THEN {}
          ELSE {<<If(g, <<ClassDef(p \o <<1, 1, 1>>)>>, <<FunctionDef(p \o <<1, 2, 1>>)>>)>> :
                    g \in StubGuards})

RECURSIVE BlocksAt(_, _)
\* the statement lists at path p with if statements nested depth deep
BlocksAt(p, depth) ==
    LET Ifs(i) ==
            IF depth = 0 THEN {}
            ELSE {If(g, b, o) : g \in StubGuards,
                                b \in BlocksAt(p \o <<i, 1>>, depth - 1) \ {<<>>},
                                o \in ElseBlocksAt(p \o <<i, 2>>, depth - 1)}
    IN {<<>>}
       \cup {<<st>> : st \in SimpleAt(p \o <<1>>) \cup Ifs(1)}
       \cup {<<ClassDef(p \o <<1>>), c, FunctionDef(p \o <<3>>)>> : c \in Ifs(2)}

\* the stubs with if statements nested at most depth deep
Documents(depth) == BlocksAt(<<>>, depth)

(***************************************************************************)
(* SpecExtract: set(extract_names_from_ast(tree)) for every stub.          *)
(***************************************************************************)
InitExtract ==
    /\ pc = "start"
    /\ tree \in Documents(MaxDepth)
    /\ names = <<>>
    /\ printed = <<>>
    /\ exc = "None"
    /\ NoSurfaces
    /\ NoGuard
    /\ NoModules

Extract ==
    /\ pc = "start"
    /\ \E r \in {extract_names_from_ast(tree)} :
          /\ names' = r.names
          /\ printed' = r.printed
          /\ exc' = r.exc
          /\ pc' = IF r.exc = "None" THEN "done" ELSE "raised"
    /\ UNCHANGED <<tree, reconVars, evalVars, driverVars>>

NextExtract == Extract

SpecExtract == InitExtract /\ [][NextExtract]_vars

(***************************************************************************)
(* checker.py __main__: run_on for each module of the command line.        *)
(***************************************************************************)
\* the names of the modules of a run, by position
ModuleNames == <<"os", "re", "abc", "ast", "json">>

FooStub == <<<<"foo", NameInfo(TRUE, "FunctionDef", "None", "None", "None")>>>>

\* what get_defined_names and get_stub_names give for one module
CheckerUnits ==
    {[capture |-> "CalledProcessError", runtime |-> RuntimeDictOf({}, FALSE, <<>>),
      lookup |-> "found", stub |-> <<>>]}
    \cup {[capture |-> "ok", runtime |-> rt, lookup |-> "None", stub |-> <<>>] :
            rt \in {RuntimeDictOf({"foo"}, FALSE, <<>>),
                    RuntimeDictOf({"foo"}, TRUE, <<"foo">>)}}
    \cup {[capture |-> "ok", runtime |-> rt, lookup |-> "found", stub |-> st] :
            rt \in {RuntimeDictOf({"foo"}, FALSE, <<>>),
                    RuntimeDictOf({}, FALSE, <<>>),
                    RuntimeDictOf({"foo"}, TRUE, <<"foo", "extra">>)},
            st \in {<<>>, FooStub}}

\* the lines run_on prints for the errors check_module yields
ErrorLines(errs) ==
    [i \in 1..Len(errs) |-> <<errs[i].module_name, errs[i].message[1], errs[i].message[2]>>]

InitDriver ==
    /\ pc = "running"
    /\ modules \in SeqsUpTo(CheckerUnits, MaxModules)
    /\ checked = 0
    /\ printed = <<>>
    /\ exc = "None"
    /\ NoSurfaces
    /\ NoGuard
    /\ NoDocument

\* one turn of the loop: run_on(module_name, version, typeshed_dir)
RunOn ==
    /\ pc = "running"
    /\ checked < Len(modules)
    /\ LET unit == modules[checked + 1]
           r == check_module(unit.capture, unit.runtime, unit.lookup, unit.stub,
                             ModuleNames[checked + 1])
       IN /\ printed' = printed \o r.printed \o ErrorLines(r.errors)
          /\ exc' = r.exc
          /\ IF r.exc = "None"
             THEN pc' = "running" /\ checked' = checked + 1
             ELSE pc' = "raised" /\ checked' = checked
    /\ UNCHANGED <<modules, reconVars, evalVars, extractVars>>

\* the loop is over
Exit ==
    /\ pc = "running"
    /\ checked = Len(modules)
    /\ pc' = "done"
    /\ UNCHANGED <<printed, exc, driverVars, reconVars, evalVars, extractVars>>

NextDriver == RunOn \/ Exit

SpecDriver == InitDriver /\ [][NextDriver]_vars

(***************************************************************************)
(* stubcheck.py check_typeshed_dir: the in-process driver.                 *)
(***************************************************************************)
\* the stubs of the modules of the standard library, their declarations
\* named as the module's names are
TypeshedTrees ==
    { <<FunctionDef("foo")>>,
      <<FunctionDef("foo"), Assign(<<Name("BAR")>>), FunctionDef("_x")>>,
      <<If(GTrue, <<ClassDef("foo")>>, <<ClassDef("BAR")>>), ClassDef("extra")>>,
      <<If(GUnbound, <<ClassDef("foo")>>, <<>>), ClassDef("extra")>>,
      <<ClassDef("foo"), If(GTypeError, <<ClassDef("extra")>>, <<>>)>> }

\* one module of get_stdlib_modules(): how its import ends, the names of
\* dir(mod), its __all__ if it has one, and its stub if there is one
TypeshedUnit(import, defined, has_all, all, has_stub, body) ==
    [import |-> import,
     dir |-> defined \cup {"__doc__"} \cup (IF has_all THEN {"__all__"} ELSE {}),
     has_all |-> has_all, all |-> all, has_stub |-> has_stub, tree |-> body]

TypeshedUnits ==
    \* the import raises ImportError, or the module's code raises another
    \* exception as it runs
    {TypeshedUnit(e, {}, FALSE, <<>>, FALSE, <<>>) : e \in {"ImportError", "OSError"}}
    \cup {TypeshedUnit("ok", d, FALSE, <<>>, FALSE, <<>>) : d \in {{"foo"}}}
    \cup {TypeshedUnit("ok", d, FALSE, <<>>, TRUE, t) :
            d \in {{}, {"foo"}, {"foo", "_x"}, {"foo", "BAR"}},
            t \in TypeshedTrees}
    \cup {TypeshedUnit("ok", d, TRUE, a, TRUE, t) :
            d \in {{"foo"}, {"foo", "BAR"}},
            a \in {<<"foo">>, <<"foo", "extra">>},
            t \in TypeshedTrees}

\* hasattr(_EMPTY_MODULE, name): the attributes every module has
EmptyModuleAttrs == {"__doc__", "__name__", "__loader__", "__package__", "__spec__"}

\* name.startswith('_')
StartsWithUnderscore(name) == name \in {"__all__", "__doc__", "_x"}

RECURSIVE ListOf(_)
\* the elements of a set as a list, in the arbitrary order of its iteration
ListOf(S) ==
    IF S = {} THEN <<>> ELSE LET x == CHOOSE y \in S : TRUE IN <<x>> \o ListOf(S \ {x})

\* extract_names_from_module: (required_names, optional_names)
extract_names_from_module(unit) ==
    [required |-> IF unit.has_all THEN Range(unit.all) ELSE unit.dir,
     optional |-> unit.dir]

RECURSIVE MissingErrors(_, _)
\* the loop over sorted(required_module_names - stub_names)
MissingErrors(missing, module_name) ==
    IF missing = <<>> THEN <<>>
    ELSE LET rest == MissingErrors(Tail(missing), module_name)
         IN IF Head(missing) \in EmptyModuleAttrs THEN rest
            ELSE IF StartsWithUnderscore(Head(missing)) THEN rest
            ELSE <<<<module_name, Head(missing), "exists in module but not in stub">>>> \o rest

RECURSIVE ExtraErrors(_, _)
\* the loop over sorted(stub_names - optional_module_names)
ExtraErrors(extra, module_name) ==
    IF extra = <<>> THEN <<>>
    ELSE LET rest == ExtraErrors(Tail(extra), module_name)
         IN IF StartsWithUnderscore(Head(extra)) THEN rest
            ELSE <<<<module_name, Head(extra), "exists in stub but not in module">>>> \o rest

\* the two diffs of the names of the stub against the names of the module
report_names(unit, module_name, x) ==
    IF x.exc # "None" THEN [printed |-> x.printed, exc |-> x.exc]
    ELSE LET stub_names == Range(x.names)
             m == extract_names_from_module(unit)
             bad == IF m.required \ m.optional # {}
                    THEN <<<<module_name, m.required \ m.optional,
                             "incorrect name in __all__">>>>
                    ELSE <<>>
         IN [printed |-> x.printed \o bad
                \o MissingErrors(sorted(ListOf(m.required \ stub_names), FALSE),
                                 module_name)
                \o ExtraErrors(sorted(ListOf(stub_names \ m.optional), FALSE),
                               module_name),
             exc |-> "None"]

\* the body of the loop of check_typeshed_dir for one module: what error()
\* and print() write and the exception that leaves the loop
check_typeshed_module(unit, module_name) ==
    IF unit.import = "ImportError" THEN [printed |-> <<>>, exc |-> "None"]
    ELSE IF unit.import # "ok" THEN [printed |-> <<>>, exc |-> unit.import]
    ELSE IF ~unit.has_stub
    THEN [printed |-> <<<<module_name, "failed to find stub for module">>>>, exc |-> "None"]
    ELSE report_names(unit, module_name, extract_names_from_ast(unit.tree))

InitTypeshed ==
    /\ pc = "running"
    /\ modules \in SeqsUpTo(TypeshedUnits, MaxModules)
    /\ checked = 0
    /\ printed = <<>>
    /\ exc = "None"
    /\ NoSurfaces
    /\ NoGuard
    /\ NoDocument

\* one turn of the for loop over get_stdlib_modules()
CheckStdlibModule ==
    /\ pc = "running"
    /\ checked < Len(modules)
    /\ \E r \in {check_typeshed_module(modules[checked + 1], ModuleNames[checked + 1])} :
          /\ printed' = printed \o r.printed
          /\ exc' = r.exc
          /\ IF r.exc = "None"
             THEN pc' = "running" /\ checked' = checked + 1
             ELSE pc' = "raised" /\ checked' = checked
    /\ UNCHANGED <<modules, reconVars, evalVars, extractVars>>

\* check_typeshed_dir returns
Return ==
    /\ pc = "running"
    /\ checked = Len(modules)
    /\ pc' = "done"
    /\ UNCHANGED <<printed, exc, driverVars, reconVars, evalVars, extractVars>>

NextTypeshed == CheckStdlibModule \/ Return

SpecTypeshed == InitTypeshed /\ [][NextTypeshed]_vars

(***************************************************************************)
(* Claims about the reconciliation (checker.py), checked under Spec.       *)
(***************************************************************************)
\* check_module ran both rules: the capture worked and the stub was found
Reconciled == pc = "done" /\ capture = "ok" /\ lookup = "found"

\* how many of the yielded errors are Error(ModuleName, name, text)
ErrCount(name, text) ==
    Cardinality({i \in 1..Len(errors) : errors[i] = Error(ModuleName, name, text)})

InfoOf(name) == (CHOOSE i \in 1..Len(stub) : stub[i][1] = name)

\* the vocabulary of the claims: a declared entry's kind and declared type
KindOf(info) ==
    IF info.ast.node \in {"Assign", "AnnAssign"} THEN "value-binding"
    ELSE IF info.ast.node = "ClassDef" THEN "class" ELSE "function"

DeclaredTypeOf(info) ==
    IF info.ast.node = "Assign" THEN info.ast.type_comment
    ELSE IF info.ast.node = "AnnAssign" THEN info.ast.annotation.id
    ELSE "None"

\* the entry of name is one rule A reports
RuleAReports(name) ==
    /\ name \in StubKeys(stub)
    /\ name \notin DOMAIN runtime
    /\ LET info == stub[InfoOf(name)][2]
       IN /\ info.is_exported
          /\ ~(KindOf(info) = "value-binding" /\ DeclaredTypeOf(info) = "int")

\* C1: rule A yields exactly one "is in stub but is not defined at runtime"
\* error for a name that is in the stub, exported, absent at runtime and not
\* an int value binding, and none for every other name.
C1_RuleA ==
    Reconciled =>
        \A name \in Names \cup DOMAIN runtime :
            ErrCount(name, InStubText) = IF RuleAReports(name) THEN 1 ELSE 0

\* a function that is reported beside an absent exported int that is not,
\* and beside an entry that is not exported
C1_Witness ==
    /\ Reconciled
    /\ \E a, b \in StubKeys(stub) :
        /\ ErrCount(a, InStubText) = 1
        /\ ErrCount(b, InStubText) = 0
        /\ b \notin DOMAIN runtime
        /\ \/ /\ stub[InfoOf(b)][2].is_exported
              /\ DeclaredTypeOf(stub[InfoOf(b)][2]) = "int"
           \/ ~stub[InfoOf(b)][2].is_exported

HasAll == "__all__" \in DOMAIN runtime

AllList == IF HasAll THEN runtime["__all__"].value ELSE <<>>

\* C2 as stated: with an __all__ at runtime, each of its names that is not in
\* the stub is reported exactly once, and no other name is reported.
C2_ExactlyOnce ==
    (Reconciled /\ HasAll) =>
        \A name \in Names \cup DOMAIN runtime :
            ErrCount(name, InAllText) =
                IF name \in Range(AllList) /\ name \notin StubKeys(stub) THEN 1 ELSE 0

\* C2 amended: with an __all__ at runtime, a name of __all__ that is not in
\* the stub is reported once for each time __all__ lists it (once when
\* __all__ lists it once), and no other name is reported.
C2_RuleB ==
    (Reconciled /\ HasAll) =>
        \A name \in Names \cup DOMAIN runtime :
            ErrCount(name, InAllText) =
                IF name \notin StubKeys(stub) THEN Count(AllList, name) ELSE 0

\* __all__ lists a name of the stub (whose entry is not exported) and a name
\* the stub lacks; only the second is reported
C2_Witness ==
    /\ Reconciled
    /\ HasAll
    /\ \E a, b \in Range(AllList) :
        /\ a \in StubKeys(stub)
        /\ ~stub[InfoOf(a)][2].is_exported
        /\ ErrCount(a, InAllText) = 0
        /\ b \notin StubKeys(stub)
        /\ ErrCount(b, InAllText) = 1

\* the lists with the same elements as s, in every order
Reorderings(s) ==
    {t \in [1..Len(s) -> Range(s)] : \A x \in Range(s) : Count(t, x) = Count(s, x)}

\* a runtime dict is a JSON object: it has no order but that of __all__
WithAll(rt, all) == [n \in DOMAIN rt |-> IF n = "__all__" THEN [rt[n] EXCEPT !.value = all] ELSE rt[n]]

IsInStub(e) == e.message[2] = InStubText

\* C4: what check_module yields is the rule A errors in ascending order of
\* name and then the rule B errors in ascending order of name, and it is the
\* same for every insertion order of the stub and every order of __all__.
C4_Order ==
    Reconciled =>
        /\ \A i, j \in 1..Len(errors) :
            i < j =>
                /\ IsInStub(errors[j]) => IsInStub(errors[i])
                /\ IsInStub(errors[i]) = IsInStub(errors[j]) =>
                       ~StrLt(errors[j].message[1], errors[i].message[1])
        /\ \A st \in Reorderings(stub) :
           \A all \in Reorderings(AllList) :
               check_module("ok", WithAll(runtime, all), "found", st, ModuleName).errors
                   = errors

\* both rules reported, rule B two names, from a stub and an __all__ that
\* are not in ascending order
C4_Witness ==
    /\ Reconciled
    /\ Len(errors) >= 3
    /\ IsInStub(errors[1])
    /\ ~IsInStub(errors[Len(errors)])
    /\ Len(stub) >= 2 /\ StrLt(stub[2][1], stub[1][1])
    /\ Len(AllList) >= 2 /\ StrLt(AllList[2], AllList[1])

(***************************************************************************)
(* Claims about the guard evaluator (stubcheck.py), checked under SpecEval.*)
(***************************************************************************)
\* the child nodes of a node, in the order of its fields
Children(n) ==
    CASE n.node = "Tuple" -> n.elts
      [] n.node = "Subscript" -> <<n.value, n.slice>>
      [] n.node = "Slice" -> SelectSeq(<<n.lower, n.upper, n.step>>, LAMBDA c : c # NoneNode)
      [] n.node = "Index" -> <<n.value>>
      [] n.node = "Compare" -> <<n.left>> \o n.comparators
      [] n.node = "BoolOp" -> n.values
      [] n.node = "Attribute" -> <<n.value>>
      [] n.node = "UnaryOp" -> <<n.operand>>
      [] OTHER -> <<>>

\* a construct outside the grammar of the guards: a name other than sys, a
\* chained comparison, a node of a class the grammar does not list
Unsupported(n) ==
    \/ n.node \notin {"Name", "Num", "Str", "Tuple", "Subscript", "Slice",
                      "Compare", "BoolOp", "Attribute"}
    \/ n.node = "Name" /\ n.id # "sys"
    \/ n.node = "Compare" /\ Len(n.ops) # 1

RECURSIVE ContainsUnsupported(_)
ContainsUnsupported(n) ==
    \/ Unsupported(n)
    \/ \E i \in 1..Len(Children(n)) : ContainsUnsupported(Children(n)[i])

Evaluated == pc = "done" /\ test # <<>>

\* C7 as stated: a guard with an unsupported construct anywhere in it fails
\* with LiteralEvalError and returns no value.
C7_FailClosedAnywhere ==
    (Evaluated /\ ContainsUnsupported(test)) =>
        result.k = "raise" /\ result.e = "LiteralEvalError"

\* C7 amended: once the evaluation visits an unsupported construct it fails
\* with LiteralEvalError there and returns no value; a construct in an
\* operand that and/or skips, or behind a sub-expression that raised, is not
\* visited.
C7_FailClosed ==
    Evaluated =>
        \A i \in 1..Len(result.visited) :
            Unsupported(result.visited[i]) =>
                /\ result.k = "raise"
                /\ result.e = "LiteralEvalError"
                /\ i = Len(result.visited)

\* an unsupported construct below the top of the guard, visited after a
\* supported operand was evaluated, fails the whole guard
C7_Witness ==
    /\ Evaluated
    /\ test.node \in {"BoolOp", "Compare", "Subscript"}
    /\ ~Unsupported(test)
    /\ Len(result.visited) >= 3
    /\ Unsupported(result.visited[Len(result.visited)])
    /\ result.k = "raise" /\ result.e = "LiteralEvalError"

\* what each operand of the and/or under test evaluates to by itself
OperandResult(i) == visit(test.values[i])

ShortCircuits(i) ==
    /\ OperandResult(i).k = "ok"
    /\ \/ test.op = "Or" /\ Truthy(OperandResult(i).v)
       \/ test.op = "And" /\ ~Truthy(OperandResult(i).v)

\* the operands up to i evaluate, none raises
AllEvaluate(i) == \A j \in 1..i : OperandResult(j).k = "ok"

RECURSIVE VisitedUpTo(_)
\* the nodes visited by the evaluation of the operands 1..i, in order
VisitedUpTo(i) == IF i = 0 THEN <<>> ELSE VisitedUpTo(i - 1) \o OperandResult(i).visited

\* C10: an and returns the value of its first false operand, an or the value
\* of its first true operand, without visiting any operand behind it; when
\* no operand short-circuits, the value of the last operand; the value is
\* the operand's own, not its truth value.
C10_ShortCircuit ==
    (Evaluated /\ test.node = "BoolOp") =>
        LET n == Len(test.values)
            S == {i \in 1..n : ShortCircuits(i)}
            stop == IF S = {} THEN n ELSE CHOOSE i \in S : \A j \in S : i <= j
        IN AllEvaluate(stop) =>
            /\ result.k = "ok"
            /\ result.v = OperandResult(stop).v
            /\ result.visited = <<test>> \o VisitedUpTo(stop)

\* an and whose second operand is the first false one, the empty str, and
\* whose third operand would raise: the result is the empty str
C10_Witness ==
    /\ Evaluated
    /\ test.node = "BoolOp" /\ test.op = "And" /\ Len(test.values) = 3
    /\ OperandResult(1).k = "ok" /\ Truthy(OperandResult(1).v)
    /\ ShortCircuits(2)
    /\ OperandResult(3).k = "raise"
    /\ result = Ok(StrV(<<>>), <<test>> \o VisitedUpTo(2))

(***************************************************************************)
(* Claims about the extractor (stubcheck.py), checked under SpecExtract.   *)
(***************************************************************************)
RECURSIVE Decls(_, _, _)
\* the declarations of a statement list at path p, in document order, each
\* with the list it stands in and the conditionals (guard and branch)
\* around it
Decls(nodes, p, conds) ==
    LET At(i) ==
            LET node == nodes[i]
                here == [list |-> p, conds |-> conds]
            IN CASE node.node \in {"ClassDef", "FunctionDef"} ->
                        <<[name |-> node.name] @@ here>>
                 [] node.node = "Assign" ->
                        [j \in 1..Len(TargetNames(node.targets)) |->
                            [name |-> TargetNames(node.targets)[j]] @@ here]
                 [] node.node = "If" ->
                        Decls(node.body, p \o <<i, 1>>,
                              Append(conds, [test |-> node.test, branch |-> TRUE]))
                        \o Decls(node.orelse, p \o <<i, 2>>,
                                 Append(conds, [test |-> node.test, branch |-> FALSE]))
                 [] OTHER -> <<>>
        Upto[i \in 0..Len(nodes)] == IF i = 0 THEN <<>> ELSE Upto[i - 1] \o At(i)
    IN Upto[Len(nodes)]

RECURSIVE Conditionals(_, _, _)
\* the if statements of a statement list, each with its path, the list it
\* stands in and the conditionals around it
Conditionals(nodes, p, conds) ==
    LET At(i) ==
            LET node == nodes[i]
            IN IF node.node # "If" THEN <<>>
               ELSE <<[test |-> node.test, path |-> p \o <<i>>, list |-> p, conds |-> conds]>>
                    \o Conditionals(node.body, p \o <<i, 1>>,
                                    Append(conds, [test |-> node.test, branch |-> TRUE]))
                    \o Conditionals(node.orelse, p \o <<i, 2>>,
                                    Append(conds, [test |-> node.test, branch |-> FALSE]))
        Upto[i \in 0..Len(nodes)] == IF i = 0 THEN <<>> ELSE Upto[i - 1] \o At(i)
    IN Upto[Len(nodes)]

\* every guard around a declaration evaluates
GuardsSucceed(conds) == \A i \in 1..Len(conds) : visit(conds[i].test).k = "ok"

\* every guard around a declaration evaluates and selects its branch
Selected(conds) ==
    \A i \in 1..Len(conds) :
        /\ visit(conds[i].test).k = "ok"
        /\ Truthy(visit(conds[i].test).v) = conds[i].branch

IsPrefix(p, q) == Len(p) <= Len(q) /\ SubSeq(q, 1, Len(p)) = p

ExtractionEnded == pc \in {"done", "raised"} /\ tree # <<>>

\* the place of a name among the declarations of the stub
DeclIndex(D, name) == CHOOSE i \in 1..Len(D) : D[i].name = name

\* C5: of a conditional whose guard evaluates (and of the conditionals
\* around it), the declarations of the branch the guard's value selects are
\* extracted and those of the other branch are not; the names come in
\* document order.
C5_BranchSelection ==
    ExtractionEnded =>
        LET D == Decls(tree, <<>>, <<>>)
        IN /\ \A i \in 1..Len(D) :
                (D[i].conds # <<>> /\ GuardsSucceed(D[i].conds)) =>
                    (D[i].name \in Range(names) <=> Selected(D[i].conds))
           /\ \A i, j \in 1..Len(names) :
                i < j => DeclIndex(D, names[i]) < DeclIndex(D, names[j])

\* C6: of a conditional whose guard fails to evaluate, the extraction goes
\* on: no exception leaves it, a notice names the guard, no declaration of
\* either branch is extracted, and the declarations beside the conditional
\* in the same list are.
C6_GuardFailureIsolation ==
    ExtractionEnded =>
        LET D == Decls(tree, <<>>, <<>>)
            C == Conditionals(tree, <<>>, <<>>)
        IN \A i \in 1..Len(C) :
            (Selected(C[i].conds) /\ visit(C[i].test).k = "raise") =>
                /\ exc = "None"
                /\ <<"bad condition", C[i].test>> \in Range(printed)
                /\ \A j \in 1..Len(D) :
                    /\ IsPrefix(C[i].path, D[j].list) => D[j].name \notin Range(names)
                    /\ D[j].list = C[i].list => D[j].name \in Range(names)

(***************************************************************************)
(* Claims about the drivers.                                               *)
(***************************************************************************)
\* the driver's loop has dealt with the k-th module: it finished with it,
\* or an exception left the loop in it
Processed(k) ==
    /\ k \in 1..Len(modules)
    /\ k <= checked \/ (pc = "raised" /\ k = checked + 1)

\* the lines written for the module at place k
LinesOf(k) == {i \in 1..Len(printed) : printed[i][1] = ModuleNames[k]}

\* C3, under SpecTypeshed: for a module without __all__ no name that is in
\* the module and not in the stub is reported.
C3_NoExportListNoReport ==
    \A k \in 1..Len(modules) :
        (Processed(k) /\ ~modules[k].has_all) =>
            \A i \in LinesOf(k) :
                ~(Len(printed[i]) = 3 /\ printed[i][3] = "exists in module but not in stub")

\* C8, under SpecTypeshed: a module whose import fails is reported in a
\* notice, yields no diagnostic and lets no exception leave the loop, so
\* that the modules behind it are checked.
C8_ImportFailureIsolated ==
    \A k \in 1..Len(modules) :
        (Processed(k) /\ modules[k].import # "ok") =>
            /\ exc = "None"
            /\ \E i \in LinesOf(k) : Len(printed[i]) = 2
            /\ \A i \in LinesOf(k) : Len(printed[i]) # 3

\* C9, under SpecDriver: of a module whose stub lookup returns None the
\* driver reports that it failed to find the stub, yields no rule A or rule
\* B error and lets no exception leave the loop, so that the modules behind
\* it are checked.
C9_AbsentStubIsolated ==
    \A k \in 1..Len(modules) :
        (Processed(k) /\ modules[k].capture = "ok" /\ modules[k].lookup = "None") =>
            /\ exc = "None"
            /\ \E i \in LinesOf(k) :
                Len(printed[i]) = 2 /\ printed[i][2] = "failed to find stub for module"
            /\ \A i \in LinesOf(k) : Len(printed[i]) # 3

====
